---- MODULE Spec2Model ----
(***************************************************************************)
(* Model of github_mcp_server/server.py: the GitHubMCPServer tool handler, *)
(* the locator parser, the structure tree builder on both access paths,   *)
(* the dependency manifest aggregator and the repository info aggregator. *)
(*                                                                         *)
(* Conventions.  A Python str is a sequence of one-character atoms.  A     *)
(* value held in a dynamically typed slot (what json.dumps writes and      *)
(* json.loads reads) carries its type: JNull, JStr, JInt, JList, JObj.     *)
(* A call either returns or raises: Return(v) and Raise(e).  A JSON text   *)
(* is the sequence of its tokens (the whitespace json.dumps(indent=2) adds *)
(* carries no information and is left out).                                *)
(***************************************************************************)
EXTENDS Integers, Sequences, FiniteSets, TLC

VARIABLES github_client, call, remote, ret, requests

vars == <<github_client, call, remote, ret, requests>>

(***************************************************************************)
(* Bounds of the model.                                                    *)
(***************************************************************************)
\* Deepest directory level of a modelled remote repository that has entries.
RepoDepth == 3
\* Largest max_depth argument tried (the smallest is -1).
MaxDepthArg == 4
\* Most extra files "x1", "x2", ... at the root of a repository.
MaxRootExtra == 8

(***************************************************************************)
(* Python values.                                                          *)
(***************************************************************************)
JNull == [k |-> "null"]
JStr(s) == [k |-> "str", s |-> s]
JInt(n) == [k |-> "int", n |-> n]
JList(items) == [k |-> "list", items |-> items]
JObj(members) == [k |-> "obj", members |-> members]

Return(v) == [ok |-> TRUE, val |-> v]
Raise(e) == [ok |-> FALSE, exc |-> e]

\* The exception classes raised by the modelled code and its libraries, and
\* those among them that derive from Exception.
ExceptionClasses == {"ValueError", "KeyError", "TypeError", "AttributeError",
                     "GithubException", "HTTPError", "ConnectionError",
                     "UnicodeDecodeError", "JSONDecodeError", "BinasciiError"}

RECURSIVE Concat(_)
Concat(seqs) == IF seqs = <<>> THEN <<>> ELSE Head(seqs) \o Concat(Tail(seqs))

(***************************************************************************)
(* The remote repository service.  A repository is given level by level:   *)
(* levels[k] names the listing every directory at nesting level k - 1      *)
(* returns (the root is level 0), directories below the last level are     *)
(* empty, and the root holds `extra` more files.  `fail` is the set of     *)
(* directory paths whose listing fails, and failKind says how: "service"   *)
(* (a GithubException, or a non-200 status on the fallback path) or        *)
(* "network" (an exception of the HTTP library on either path).            *)
(***************************************************************************)
FILE == <<"f", "i", "l", "e">>
DIR == <<"d", "i", "r">>
SYMLINK == <<"s", "y", "m", "l", "i", "n", "k">>

Shapes == [empty |-> <<>>,
           small |-> << [name |-> <<"s", "r", "c">>, type |-> DIR],
                        [name |-> <<"R">>, type |-> FILE] >>,
           wide  |-> << [name |-> <<"d">>, type |-> DIR],
                        [name |-> <<"f">>, type |-> FILE],
                        [name |-> <<"e">>, type |-> DIR],
                        [name |-> <<"l">>, type |-> SYMLINK] >>]

ShapeNames == DOMAIN Shapes

\* The decimal digits of a number below 100, as a str.
Digits(i) == IF i < 10 THEN <<ToString(i)>>
             ELSE <<ToString(i \div 10), ToString(i % 10)>>

ExtraName(i) == <<"x">> \o Digits(i)

\* The path of an entry `name` of the directory `dir` ("" is the root).
ChildPath(dir, name) == IF dir = <<>> THEN name ELSE dir \o <<"/">> \o name

RECURSIVE Split(_, _)
\* s.split(sep) for a one-character separator.
Split(s, sep) ==
    IF \A i \in 1..Len(s) : s[i] # sep THEN <<s>>
    ELSE LET i == CHOOSE j \in 1..Len(s) :
                      s[j] = sep /\ \A k \in 1..(j - 1) : s[k] # sep
         IN  <<SubSeq(s, 1, i - 1)>> \o Split(SubSeq(s, i + 1, Len(s)), sep)

\* The nesting level of the directory at `path` (the root is 0).
Level(path) == IF path = <<>> THEN 0 ELSE Len(Split(path, "/"))

\* The entries the service lists for the directory at `path`.
Listing(rem, path) ==
    LET k == Level(path) + 1
        shape == IF k <= Len(rem.levels) THEN Shapes[rem.levels[k]] ELSE <<>>
        n == IF path = <<>> THEN rem.extra ELSE 0
    IN  [i \in 1..(Len(shape) + n) |->
            IF i <= Len(shape)
            THEN [name |-> shape[i].name,
                  type |-> shape[i].type,
                  path |-> ChildPath(path, shape[i].name),
                  size |-> IF shape[i].type = FILE THEN 10 * k + i ELSE 0]
            ELSE [name |-> ExtraName(i - Len(shape)),
                  type |-> FILE,
                  path |-> ChildPath(path, ExtraName(i - Len(shape))),
                  size |-> 100 + i]]

\* repo_obj.get_contents(path) of the authenticated client.
get_contents(rem, path) ==
    IF path \in rem.fail
    THEN Raise(IF rem.failKind = "service" THEN "GithubException"
               ELSE "ConnectionError")
    ELSE Return(Listing(rem, path))

\* requests.get(".../contents/<path>") of the fallback path: a response with
\* a status code and a body, or an exception of the HTTP library.
requests_get_contents(rem, path) ==
    IF path \in rem.fail
    THEN IF rem.failKind = "service"
         THEN Return([status_code |-> 404, json |-> <<>>])
         ELSE Raise("ConnectionError")
    ELSE Return([status_code |-> 200, json |-> Listing(rem, path)])

(***************************************************************************)
(* JSON.  json.dumps writes a value as tokens; json.loads reads a token    *)
(* sequence back, or raises when the text is not one JSON value.           *)
(***************************************************************************)
LBRACK == [t |-> "["]
RBRACK == [t |-> "]"]
LBRACE == [t |-> "{"]
RBRACE == [t |-> "}"]
NULL == [t |-> "null"]
KeyTok(k) == [t |-> "key", k |-> k]
StrTok(s) == [t |-> "str", s |-> s]
IntTok(n) == [t |-> "int", n |-> n]

RECURSIVE json_dumps(_), json_dumps_members(_)
json_dumps(v) ==
    CASE v.k = "null" -> <<NULL>>
      [] v.k = "str"  -> <<StrTok(v.s)>>
      [] v.k = "int"  -> <<IntTok(v.n)>>
      [] v.k = "list" ->
           <<LBRACK>>
           \o Concat([i \in 1..Len(v.items) |-> json_dumps(v.items[i])])
           \o <<RBRACK>>
      [] v.k = "obj"  -> <<LBRACE>> \o json_dumps_members(v.members)
                         \o <<RBRACE>>

json_dumps_members(members) ==
    IF DOMAIN members = {} THEN <<>>
    ELSE LET key == CHOOSE x \in DOMAIN members : TRUE
         IN  <<KeyTok(key)>> \o json_dumps(members[key])
             \o json_dumps_members(
                    [x \in DOMAIN members \ {key} |-> members[x]])

RECURSIVE json_end(_, _), json_items_end(_, _), json_members_end(_, _)
\* The index after the value that starts at token i; 0 when no value starts
\* there.
json_end(toks, i) ==
    IF i < 1 \/ i > Len(toks) THEN 0
    ELSE CASE toks[i].t \in {"str", "int", "null"} -> i + 1
           [] toks[i].t = "[" -> json_items_end(toks, i + 1)
           [] toks[i].t = "{" -> json_members_end(toks, i + 1)
           [] OTHER -> 0

\* The index after the "]" that closes the list whose next item starts at i.
json_items_end(toks, i) ==
    IF i < 1 \/ i > Len(toks) THEN 0
    ELSE IF toks[i].t = "]" THEN i + 1
    ELSE json_items_end(toks, json_end(toks, i))

\* The index after the "}" that closes the object whose next key is at i.
json_members_end(toks, i) ==
    IF i < 1 \/ i > Len(toks) THEN 0
    ELSE IF toks[i].t = "}" THEN i + 1
    ELSE IF toks[i].t # "key" THEN 0
    ELSE json_members_end(toks, json_end(toks, i + 1))

RECURSIVE json_value(_, _), json_items(_, _), json_members(_, _)
\* The value that starts at token i of a text in which a value starts there.
json_value(toks, i) ==
    CASE toks[i].t = "str"  -> JStr(toks[i].s)
      [] toks[i].t = "int"  -> JInt(toks[i].n)
      [] toks[i].t = "null" -> JNull
      [] toks[i].t = "["    -> JList(json_items(toks, i + 1))
      [] toks[i].t = "{"    -> JObj(json_members(toks, i + 1))

json_items(toks, i) ==
    IF toks[i].t = "]" THEN <<>>
    ELSE <<json_value(toks, i)>> \o json_items(toks, json_end(toks, i))

\* A key written twice keeps its last value.
json_members(toks, i) ==
    IF toks[i].t = "}" THEN <<>>
    ELSE json_members(toks, json_end(toks, i + 1))
         @@ (toks[i].k :> json_value(toks, i + 1))

\* json.loads: the value of a text that is exactly one value.
json_loads(toks) ==
    IF json_end(toks, 1) = Len(toks) + 1 THEN Return(json_value(toks, 1))
    ELSE Raise("JSONDecodeError")

(***************************************************************************)
(* Structure Tree Builder.  Each builder returns the structure it built    *)
(* together with the directory listings it requested, in request order.    *)
(***************************************************************************)
RECURSIVE _build_structure_tree(_, _, _, _), build_loop(_, _, _, _, _)

depth_reached_off_by_one(max_depth, current_depth) == current_depth > max_depth

\* The depth test that ends the walk (server.py lines 304 and 333).
depth_reached(max_depth, current_depth) == current_depth >= max_depth

inaccessible_dropped(item) == item

\* item["children"] = children
with_children(item, children) ==
    JObj(("children" :> JList(children)) @@ item.members)

\* The node of a directory whose listing failed (server.py lines 323, 354
\* and 357).
inaccessible(item) == with_children(item, <<>>)

expands_every_directory(content, max_depth, current_depth) ==
    content.type = DIR

expands_to_the_bound(content, max_depth, current_depth) ==
    content.type = DIR /\ current_depth < max_depth

\* The children test of the authenticated path (server.py line 315).
expands(content, max_depth, current_depth) ==
    content.type = DIR /\ current_depth < max_depth - 1

\* The node of one listed entry (server.py lines 308-313 and 337-342).
node(content) ==
    JObj([name |-> JStr(content.name),
          type |-> JStr(content.type),
          path |-> JStr(content.path),
          size |-> IF content.type = FILE THEN JInt(content.size) ELSE JNull])

\* The node of a directory whose listing was fetched, and the listings the
\* walk below it requested.
nested(item, path, sub) ==
    [item |-> with_children(item, sub.structure),
     listed |-> <<path>> \o sub.listed]

\* try: sub_contents = ...; item["children"] = ...
\* except Exception: item["children"] = []
children_of(item, path, sub_contents, rem, max_depth, current_depth) ==
    IF sub_contents.ok
    THEN nested(item, path,
                _build_structure_tree(sub_contents.val, rem, max_depth,
                                      current_depth + 1))
    ELSE [item |-> inaccessible(item), listed |-> <<path>>]

\* One pass of the loop body of _build_structure_tree.
build_item(content, rem, max_depth, current_depth) ==
    IF expands(content, max_depth, current_depth)
    THEN children_of(node(content), content.path,
                  get_contents(rem, content.path), rem, max_depth,
                  current_depth)
    ELSE [item |-> node(content), listed |-> <<>>]

\* structure.append(item)
append(one, rest) ==
    [structure |-> <<one.item>> \o rest.structure,
     listed |-> one.listed \o rest.listed]

\* The loop of _build_structure_tree over contents[i..].
build_loop(contents, i, rem, max_depth, current_depth) ==
    IF i > Len(contents) THEN [structure |-> <<>>, listed |-> <<>>]
    ELSE append(build_item(contents[i], rem, max_depth, current_depth),
                build_loop(contents, i + 1, rem, max_depth, current_depth))

_build_structure_tree(contents, rem, max_depth, current_depth) ==
    IF depth_reached(max_depth, current_depth)
    THEN [structure |-> <<>>, listed |-> <<>>]
    ELSE build_loop(contents, 1, rem, max_depth, current_depth)

RECURSIVE _build_structure_tree_api(_, _, _, _), build_loop_api(_, _, _, _, _)

expands_api_to_the_bound(content, max_depth, current_depth) ==
    content.type = DIR /\ current_depth < max_depth

\* The children test of the fallback path (server.py line 344).
expands_api(content, max_depth, current_depth) ==
    content.type = DIR /\ current_depth < max_depth - 1

\* try: sub_response = requests.get(...); if sub_response.status_code == 200:
\* item["children"] = ... else: item["children"] = []
\* except Exception: item["children"] = []
children_of_api(item, path, sub_response, rem, max_depth, current_depth) ==
    IF ~sub_response.ok
    THEN [item |-> inaccessible(item), listed |-> <<path>>]
    ELSE IF sub_response.val.status_code # 200
    THEN [item |-> inaccessible(item), listed |-> <<path>>]
    ELSE nested(item, path,
                _build_structure_tree_api(sub_response.val.json, rem,
                                          max_depth, current_depth + 1))

\* One pass of the loop body of _build_structure_tree_api.
build_item_api(content, rem, max_depth, current_depth) ==
    IF expands_api(content, max_depth, current_depth)
    THEN children_of_api(node(content), content.path,
                      requests_get_contents(rem, content.path), rem,
                      max_depth, current_depth)
    ELSE [item |-> node(content), listed |-> <<>>]

\* The loop of _build_structure_tree_api over contents[i..].
build_loop_api(contents, i, rem, max_depth, current_depth) ==
    IF i > Len(contents) THEN [structure |-> <<>>, listed |-> <<>>]
    ELSE append(build_item_api(contents[i], rem, max_depth, current_depth),
                build_loop_api(contents, i + 1, rem, max_depth,
                               current_depth))

_build_structure_tree_api(contents, rem, max_depth, current_depth) ==
    IF depth_reached(max_depth, current_depth)
    THEN [structure |-> <<>>, listed |-> <<>>]
    ELSE build_loop_api(contents, 1, rem, max_depth, current_depth)

(***************************************************************************)
(* get_repository_structure: the root listing, then the builder of the     *)
(* selected access path.  Returns the call's outcome and the listings it   *)
(* requested.                                                              *)
(***************************************************************************)
\* return json.dumps(structure, indent=2)
structure_text(built) ==
    [ret |-> Return(json_dumps(JList(built.structure))),
     listed |-> <<(<<>>)>> \o built.listed]

\* The authenticated path, given the root listing (lines 282-286).
structure_of(contents, rem, max_depth) ==
    IF contents.ok
    THEN structure_text(_build_structure_tree(contents.val, rem, max_depth, 0))
    ELSE [ret |-> contents, listed |-> <<(<<>>)>>]

\* The fallback path, given the root response (lines 289-296).
structure_of_api(response, rem, max_depth) ==
    IF ~response.ok THEN [ret |-> response, listed |-> <<(<<>>)>>]
    ELSE IF response.val.status_code # 200
    THEN [ret |-> Raise("HTTPError"), listed |-> <<(<<>>)>>]
    ELSE structure_text(_build_structure_tree_api(response.val.json, rem,
                                                  max_depth, 0))

get_repository_structure(client, rem, max_depth) ==
    IF client
    THEN structure_of(get_contents(rem, <<>>), rem, max_depth)
    ELSE structure_of_api(requests_get_contents(rem, <<>>), rem, max_depth)

(***************************************************************************)
(* SpecTree: get_repository_structure on every modelled repository.        *)
(***************************************************************************)
\* The directories whose listing may be made to fail.
FailCandidates == {<<>>, <<"d">>, <<"e">>, <<"s", "r", "c">>,
                   <<"d", "/", "e">>}
\* Most listings that fail in one call.
MaxFail == 2

Repositories == UNION {[1..n -> ShapeNames] : n \in 0..RepoDepth}

FailSets == {F \in SUBSET FailCandidates : Cardinality(F) <= MaxFail}

NoCall == [op |-> "none"]
NoRemote == [levels |-> <<>>, extra |-> 0, fail |-> {}, failKind |-> "service"]

InitCommon ==
    /\ github_client \in BOOLEAN
    /\ call = NoCall
    /\ remote = NoRemote
    /\ ret = Return(<<>>)
    /\ requests = <<>>

\* The server keeps no state between requests: every request starts from
\* the state the constructor left.
Idle == call = NoCall

StructureCall(max_depth, rem) ==
    \E r \in {get_repository_structure(github_client, rem, max_depth)} :
        /\ call' = [op |-> "get_repository_structure", max_depth |-> max_depth]
        /\ remote' = rem
        /\ ret' = r.ret
        /\ requests' = r.listed
        /\ UNCHANGED github_client

TreeRemotes ==
    {[levels |-> l, extra |-> 0, fail |-> F, failKind |-> k] :
        l \in Repositories, F \in FailSets, k \in {"service", "network"}}

StructureAuthenticated ==
    /\ Idle
    /\ github_client
    /\ \E max_depth \in (-1)..MaxDepthArg, rem \in TreeRemotes :
          StructureCall(max_depth, rem)

StructureFallback ==
    /\ Idle
    /\ ~github_client
    /\ \E max_depth \in (-1)..MaxDepthArg, rem \in TreeRemotes :
          StructureCall(max_depth, rem)

NextTree == StructureAuthenticated \/ StructureFallback

SpecTree == InitCommon /\ [][NextTree]_vars

(***************************************************************************)
(* The returned tree, read back from the JSON text the call returned.      *)
(***************************************************************************)
RECURSIVE NodesOf(_, _)
\* Every node of a list of nodes with its nesting level (the list's own
\* nodes are at `level`).
NodesOf(structure, level) ==
    UNION {{[node |-> structure[i].members, level |-> level]}
           \cup (IF "children" \in DOMAIN structure[i].members
                 THEN NodesOf(structure[i].members.children.items, level + 1)
                 ELSE {}) : i \in 1..Len(structure)}

PathComponents(path) == Len(Split(path, "/"))

\* The nodes are those of the listed entries, one each, in listing order.
Matches(nodes, listing) ==
    /\ Len(nodes) = Len(listing)
    /\ \A i \in 1..Len(nodes) :
          /\ nodes[i].members.name = JStr(listing[i].name)
          /\ nodes[i].members.type = JStr(listing[i].type)
          /\ nodes[i].members.path = JStr(listing[i].path)

StructureReturned == call.op = "get_repository_structure" /\ ret.ok

\* The tree a returned structure text holds.
ReturnedTree == json_loads(ret.val).val.items

\* C1: get_repository_structure, on either access path, returns an empty
\* sequence when max_depth = 0, and when max_depth = N >= 1 every node of the
\* returned tree is at nesting level at most N and its path has at most N
\* components.
C1_DepthBound ==
    StructureReturned =>
        /\ json_loads(ret.val).ok
        /\ call.max_depth = 0 => json_loads(ret.val).val = JList(<<>>)
        /\ call.max_depth >= 1 =>
              \A n \in NodesOf(ReturnedTree, 1) :
                  /\ n.level <= call.max_depth
                  /\ PathComponents(n.node.path.s) <= call.max_depth

\* A call whose depth bound cut the walk: a directory at level max_depth that
\* has entries on the service and is returned unexpanded.
C1_Witness ==
    /\ StructureReturned
    /\ call.max_depth >= 1
    /\ \E n \in NodesOf(ReturnedTree, 1) :
          /\ n.level = call.max_depth
          /\ n.node.type = JStr(DIR)
          /\ Listing(remote, n.node.path.s) # <<>>
          /\ "children" \notin DOMAIN n.node

\* C2: whatever subdirectory listings fail, by an exception or by a non-200
\* status, the walk completes; the nodes of the root entries and of every
\* successfully listed directory are those of its entries, in listing order;
\* and every directory whose listing was requested and failed is a node with
\* an empty children sequence.
C2_FailureIsolation ==
    call.op = "get_repository_structure" =>
        /\ <<>> \notin remote.fail => ret.ok
        /\ ret.ok =>
              LET nodes == NodesOf(ReturnedTree, 1)
              IN  /\ call.max_depth >= 1 =>
                        Matches(ReturnedTree, Listing(remote, <<>>))
                  /\ \A n \in nodes :
                        "children" \in DOMAIN n.node =>
                            IF n.node.path.s \in remote.fail
                            THEN n.node.children = JList(<<>>)
                            ELSE Matches(n.node.children.items,
                                         Listing(remote, n.node.path.s))
                  /\ \A i \in 2..Len(requests) :
                        requests[i] \in remote.fail =>
                            \E n \in nodes :
                                /\ n.node.path.s = requests[i]
                                /\ "children" \in DOMAIN n.node
                                /\ n.node.children = JList(<<>>)

\* A walk in which the listing of one directory failed while a sibling
\* directory of it was expanded to its entries.
C2_Witness ==
    /\ StructureReturned
    /\ \E n, m \in NodesOf(ReturnedTree, 1) :
          /\ n.level = m.level
          /\ n.node.path.s \in remote.fail
          /\ n.node.path.s \in {requests[i] : i \in 2..Len(requests)}
          /\ n.node.children = JList(<<>>)
          /\ m.node.path.s \notin remote.fail
          /\ "children" \in DOMAIN m.node
          /\ m.node.children # JList(<<>>)

(***************************************************************************)
(* Locator Parser.  A repository URL is written scheme, netloc, then the   *)
(* characters of the path; urlparse splits it back into these.             *)
(***************************************************************************)
Url(netloc, path) == <<"https://", netloc>> \o path

urlparse(repo_url) ==
    [netloc |-> repo_url[2], path |-> SubSeq(repo_url, 3, Len(repo_url))]

RECURSIVE lstrip(_, _), rstrip(_, _)
lstrip(s, chars) ==
    IF s # <<>> /\ Head(s) \in chars THEN lstrip(Tail(s), chars) ELSE s

rstrip(s, chars) ==
    IF s # <<>> /\ s[Len(s)] \in chars
    THEN rstrip(SubSeq(s, 1, Len(s) - 1), chars) ELSE s

\* s.strip(chars)
strip(s, chars) == rstrip(lstrip(s, chars), chars)

\* if len(path_parts) < 2: raise ValueError(...)
\* return path_parts[0], path_parts[1]
owner_and_repo(path_parts) ==
    IF Len(path_parts) < 2 THEN Raise("ValueError")
    ELSE Return(<<path_parts[1], path_parts[2]>>)

parse_github_url(repo_url) ==
    IF urlparse(repo_url).netloc # "github.com" THEN Raise("ValueError")
    ELSE owner_and_repo(Split(strip(urlparse(repo_url).path, {"/"}), "/"))

(***************************************************************************)
(* SpecUrl: parse_github_url on every modelled URL.                        *)
(***************************************************************************)
\* Longest URL path, in characters.
MaxPathLen == 5

Netlocs == {"github.com", "gitlab.com", "www.github.com", ""}

PathChars == {"/", "a", "b"}

\* The paths urlparse can return: empty, or starting with a slash.
UrlPaths ==
    {<<>>} \cup
    UNION {{<<"/">> \o p : p \in [1..n -> PathChars]} :
              n \in 0..(MaxPathLen - 1)}

ParseUrl ==
    /\ Idle
    /\ \E netloc \in Netlocs, path \in UrlPaths :
          /\ call' = [op |-> "parse_github_url", repo_url |-> Url(netloc, path)]
          /\ ret' = parse_github_url(Url(netloc, path))
    /\ UNCHANGED <<github_client, remote, requests>>

NextUrl == ParseUrl

SpecUrl == InitCommon /\ [][NextUrl]_vars

\* The non-empty segments of a URL path.
Segments(path) == SelectSeq(Split(path, "/"), LAMBDA seg : seg # <<>>)

\* C4: parse_github_url returns a pair exactly for the URLs whose host is
\* github.com and whose path has at least two non-empty segments; the pair is
\* the first two segments, both non-empty; every other URL fails with the
\* invalid-locator error.
C4_LocatorParser ==
    call.op = "parse_github_url" =>
        LET parsed == urlparse(call.repo_url)
            segs == Segments(parsed.path)
        IN  IF parsed.netloc = "github.com" /\ Len(segs) >= 2
            THEN /\ ret.ok
                 /\ ret.val = <<segs[1], segs[2]>>
                 /\ ret.val[1] # <<>>
                 /\ ret.val[2] # <<>>
            ELSE /\ ~ret.ok
                 /\ ret.exc = "ValueError"

(***************************************************************************)
(* _parse_dependency_file.  The content of package.json is a JSON text;    *)
(* the content of every other manifest is a str.  Never raises: every      *)
(* exception of a parser is turned into an error record.                   *)
(***************************************************************************)
PreviewLimit == 500

ELLIPSIS == <<".", ".", ".">>

Whitespace == {" ", "\n", "\t", "\r"}

\* content[:500] + "..." if len(content) > 500 else content
preview(content) ==
    IF Len(content) > PreviewLimit
    THEN SubSeq(content, 1, PreviewLimit) \o ELLIPSIS
    ELSE content

\* line.startswith('#')
startswith(line, ch) == line # <<>> /\ line[1] = ch

\* The filter of the requirements.txt comprehension (server.py line 451).
keeps_line(line) ==
    strip(line, Whitespace) # <<>> /\ ~startswith(line, "#")

\* [line.strip() for line in lines]
stripped(lines) == [i \in 1..Len(lines) |-> JStr(strip(lines[i], Whitespace))]

\* The requirements.txt comprehension (server.py line 451).
requirements_lines(content) ==
    stripped(SelectSeq(Split(content, "\n"), keeps_line))

\* data.get(key, {}) for the value json.loads returned.
dict_get(data, key) ==
    IF key \in DOMAIN data.members THEN data.members[key] ELSE JObj(<<>>)

package_summary_copied_key(data) ==
    JObj([dependencies |-> dict_get(data, "dependencies"),
          devDependencies |-> dict_get(data, "dependencies"),
          scripts |-> dict_get(data, "scripts")])

\* The summary of a parsed package.json (server.py lines 445-449).
package_summary(data) ==
    JObj([dependencies |-> dict_get(data, "dependencies"),
          devDependencies |-> dict_get(data, "devDependencies"),
          scripts |-> dict_get(data, "scripts")])

could_not_parse(file_name) ==
    JObj([error |-> JStr(<<"Could not parse ", file_name>>)])

\* try: data = json.loads(content); return {...}
\* except Exception: return {"error": ...}; a value that is no dict has
\* no get and fails there.
summary_or_error(file_name, data) ==
    IF ~data.ok THEN could_not_parse(file_name)
    ELSE IF data.val.k # "obj" THEN could_not_parse(file_name)
    ELSE package_summary(data.val)

_parse_dependency_file(file_name, content) ==
    IF file_name = "package.json"
    THEN summary_or_error(file_name, json_loads(content))
    ELSE IF file_name = "requirements.txt"
    THEN JObj([requirements |-> JList(requirements_lines(content))])
    ELSE JObj([content |-> JStr(preview(content))])

(***************************************************************************)
(* SpecParse: _parse_dependency_file on requirements.txt contents,         *)
(* package.json texts and the manifests that have no parser.               *)
(***************************************************************************)
\* Longest requirements.txt content, in characters.
MaxContentLen == 5
\* How far past the preview limit the longest raw manifest goes.
MaxOverrun == 2

ReqChars == {" ", "#", "a", "\n"}

ReqContents == UNION {[1..n -> ReqChars] : n \in 0..MaxContentLen}

DepMaps == {JObj(<<>>),
            JObj([a |-> JStr(<<"1", ".", "0">>)]),
            JObj([a |-> JStr(<<"1", ".", "0">>), b |-> JStr(<<"x">>)])}

PackageKeys == {"dependencies", "devDependencies", "scripts", "name"}

KeyValues(key) == IF key = "name" THEN {JStr(<<"p", "k", "g">>)} ELSE DepMaps

\* The package.json documents that are objects.
PackageObjects ==
    UNION {{JObj(m) : m \in {f \in [K -> DepMaps \cup KeyValues("name")] :
                                \A key \in K : f[key] \in KeyValues(key)}} :
              K \in SUBSET PackageKeys}

\* A text cut short is not a JSON value.
Truncated(text) == SubSeq(text, 1, Len(text) - 1)

PackageTexts ==
    {json_dumps(d) : d \in PackageObjects}
    \cup {Truncated(json_dumps(d)) : d \in PackageObjects}
    \cup {json_dumps(JList(<<>>)), json_dumps(JNull),
          json_dumps(JStr(<<"x">>)), json_dumps(JList(<<JObj(<<>>)>>))}

RawManifests == {"Pipfile", "pyproject.toml", "Gemfile", "composer.json",
                 "pom.xml", "build.gradle", "Cargo.toml", "go.mod"}

\* A text of n characters, no two neighbours alike.
Text(n) == [i \in 1..n |-> IF i % 3 = 0 THEN "a" ELSE IF i % 3 = 1 THEN "b"
                           ELSE "c"]

RawLengths == {0, 1} \cup ((PreviewLimit - 1)..(PreviewLimit + MaxOverrun))

ParseCall(file_name, content) ==
    /\ call' = [op |-> "_parse_dependency_file", file_name |-> file_name,
                content |-> content]
    /\ ret' = Return(_parse_dependency_file(file_name, content))
    /\ UNCHANGED <<github_client, remote, requests>>

ParseRequirements ==
    /\ Idle
    /\ \E content \in ReqContents : ParseCall("requirements.txt", content)

ParsePackage ==
    /\ Idle
    /\ \E content \in PackageTexts : ParseCall("package.json", content)

ParseRaw ==
    /\ Idle
    /\ \E file_name \in RawManifests, n \in RawLengths :
          ParseCall(file_name, Text(n))

NextParse == ParseRequirements \/ ParsePackage \/ ParseRaw

SpecParse == InitCommon /\ [][NextParse]_vars

ParsedFile(file_name) ==
    call.op = "_parse_dependency_file" /\ call.file_name = file_name

\* A blank line holds nothing but whitespace; a comment line is one whose
\* first character that is not whitespace is '#'.
BlankLine(line) == \A i \in 1..Len(line) : line[i] \in Whitespace

CommentLine(line) ==
    \E i \in 1..Len(line) :
        /\ line[i] = "#"
        /\ \A j \in 1..(i - 1) : line[j] \in Whitespace

\* C5: the summary of a requirements.txt content is {requirements: L}, L
\* being, in their order, exactly the lines of the content that are neither
\* blank nor comment lines; no entry of L is empty or begins with '#'.
\* (Lines are compared up to the surrounding whitespace the code strips, so
\* that only the choice of lines is at stake.)
C5_RequirementsLines ==
    ParsedFile("requirements.txt") =>
        LET L == ret.val.members.requirements.items
            wanted == SelectSeq(Split(call.content, "\n"),
                                LAMBDA line : ~BlankLine(line)
                                              /\ ~CommentLine(line))
        IN  /\ DOMAIN ret.val.members = {"requirements"}
            /\ L = [i \in 1..Len(wanted) |->
                       JStr(strip(wanted[i], Whitespace))]
            /\ \A i \in 1..Len(L) : L[i].s # <<>> /\ L[i].s[1] # "#"

\* C6: for a package.json content that parses to an object, the summary has
\* exactly the keys dependencies, devDependencies and scripts, each the
\* value the input has under that key, or the empty mapping when the input
\* has no such key.
C6_PackageSummary ==
    (ParsedFile("package.json") /\ json_loads(call.content).ok
     /\ json_loads(call.content).val.k = "obj") =>
        LET data == json_loads(call.content).val.members
            summary == ret.val.members
        IN  /\ ret.val.k = "obj"
            /\ DOMAIN summary = {"dependencies", "devDependencies", "scripts"}
            /\ \A key \in DOMAIN summary :
                  summary[key] = IF key \in DOMAIN data THEN data[key]
                                 ELSE JObj(<<>>)

\* A package.json with dependencies and scripts and no devDependencies, as
\* in the spec's example.
C6_Witness ==
    /\ ParsedFile("package.json")
    /\ json_loads(call.content).ok
    /\ json_loads(call.content).val.k = "obj"
    /\ DOMAIN json_loads(call.content).val.members
         = {"dependencies", "scripts", "name"}
    /\ ret.val.members.dependencies = JObj([a |-> JStr(<<"1", ".", "0">>)])
    /\ ret.val.members.devDependencies = JObj(<<>>)
    /\ ret.val.members.scripts # JObj(<<>>)

(***************************************************************************)
(* Dependency Manifest Aggregator.  On the service a catalog name is       *)
(* missing, fails with a service error, fails on the network, names a      *)
(* directory, or names a file whose bytes are UTF-8 text or not.           *)
(***************************************************************************)
dependency_files == <<"package.json", "requirements.txt", "Pipfile",
                      "pyproject.toml", "Gemfile", "composer.json",
                      "pom.xml", "build.gradle", "Cargo.toml", "go.mod">>

\* bytes.decode('utf-8')
decode_utf8(bytes) ==
    IF bytes.utf8 THEN Return(bytes.text) ELSE Raise("UnicodeDecodeError")

\* Base64 as the service writes it and base64.b64decode reads it.
b64encode(bytes) == [b64 |-> bytes]
b64decode(data) == data.b64

\* dependencies[file_name] = self._parse_dependency_file(file_name, content)
\* for the decoded content, or the exception the decoding raised.  Returns
\* <<summary>>.
parsed_manifest(file_name, content) ==
    IF content.ok
    THEN Return(<<_parse_dependency_file(file_name, content.val)>>)
    ELSE content

\* Lines 415-417: fetch, decode and parse one manifest with the client.
read_manifest(rem, file_name) ==
    LET entry == rem.manifests[file_name]
    IN  CASE entry.kind \in {"missing", "service_error"} ->
               Raise("GithubException")
          [] entry.kind = "network_error" -> Raise("ConnectionError")
          [] entry.kind = "directory" -> Raise("AttributeError")
          [] entry.kind = "file" ->
               parsed_manifest(file_name, decode_utf8(entry.bytes))

\* Lines 424-430: the same by direct calls.  Returns <<>> when the status
\* is not 200 and <<summary>> otherwise.
read_manifest_api(rem, file_name) ==
    LET entry == rem.manifests[file_name]
    IN  CASE entry.kind = "network_error" -> Raise("ConnectionError")
          [] entry.kind \in {"missing", "service_error"} -> Return(<<>>)
          [] entry.kind = "directory" -> Raise("TypeError")
          [] entry.kind = "file" ->
               parsed_manifest(file_name,
                      decode_utf8(b64decode(b64encode(entry.bytes))))

\* except GithubException: continue (line 418)
skips(exc) == exc = "GithubException"

\* except Exception: continue (line 431)
skips_api(exc) == exc \in ExceptionClasses

RECURSIVE scan(_, _, _, _), scan_api(_, _, _, _)
\* What the authenticated loop does with file dependency_files[i] read as r:
\* record it, skip it, or let the exception out.
scan_next(rem, i, dependencies, fetched, r) ==
    IF r.ok
    THEN scan(rem, i + 1, (dependency_files[i] :> r.val[1]) @@ dependencies,
              fetched)
    ELSE IF skips(r.exc) THEN scan(rem, i + 1, dependencies, fetched)
    ELSE [ret |-> r, fetched |-> fetched]

\* The loop of the authenticated path over dependency_files[i..]; `fetched`
\* are the files asked for so far.
scan(rem, i, dependencies, fetched) ==
    IF i > Len(dependency_files)
    THEN [ret |-> Return(dependencies), fetched |-> fetched]
    ELSE scan_next(rem, i, dependencies, Append(fetched, dependency_files[i]),
                   read_manifest(rem, dependency_files[i]))

\* The same for the fallback loop.
scan_next_api(rem, i, dependencies, fetched, r) ==
    IF ~r.ok
    THEN IF skips_api(r.exc) THEN scan_api(rem, i + 1, dependencies, fetched)
         ELSE [ret |-> r, fetched |-> fetched]
    ELSE IF r.val = <<>> THEN scan_api(rem, i + 1, dependencies, fetched)
    ELSE scan_api(rem, i + 1,
                  (dependency_files[i] :> r.val[1]) @@ dependencies, fetched)

\* The loop of the fallback path over dependency_files[i..].
scan_api(rem, i, dependencies, fetched) ==
    IF i > Len(dependency_files)
    THEN [ret |-> Return(dependencies), fetched |-> fetched]
    ELSE scan_next_api(rem, i, dependencies,
                       Append(fetched, dependency_files[i]),
                       read_manifest_api(rem, dependency_files[i]))

\* return json.dumps(dependencies, indent=2)
dependencies_text(r) ==
    IF r.ret.ok
    THEN [ret |-> Return(json_dumps(JObj(r.ret.val))), fetched |-> r.fetched]
    ELSE r

\* Returns the call's outcome and the catalog files it asked for, in order.
analyze_repo_dependencies(client, repo_url, rem) ==
    IF ~parse_github_url(repo_url).ok
    THEN [ret |-> parse_github_url(repo_url), fetched |-> <<>>]
    ELSE IF client
    THEN IF ~rem.repo_found
         THEN [ret |-> Raise("GithubException"), fetched |-> <<>>]
         ELSE dependencies_text(scan(rem, 1, <<>>, <<>>))
    ELSE dependencies_text(scan_api(rem, 1, <<>>, <<>>))

(***************************************************************************)
(* SpecDeps: analyze_repo_dependencies on every modelled repository.       *)
(***************************************************************************)
Bytes(text) == [utf8 |-> TRUE, text |-> text]
NotUtf8 == [utf8 |-> FALSE]

GoodPackage == JObj([dependencies |-> JObj([a |-> JStr(<<"1", ".", "0">>)]),
                     scripts |-> JObj([build |-> JStr(<<"x">>)])])

\* Two contents for each catalog file.
ManifestTexts(file_name) ==
    IF file_name = "package.json"
    THEN <<json_dumps(GoodPackage), Truncated(json_dumps(GoodPackage))>>
    ELSE IF file_name = "requirements.txt"
    THEN << <<"a", "\n", "#", "c", "\n", "\n", "b", "\n">>,
            <<" ", "#", "c">> >>
    ELSE <<Text(3), Text(7)>>

\* What a catalog name that is not simply missing can be on the service.
ManifestEntry(file_name, n) ==
    CASE n = 1 -> [kind |-> "service_error"]
      [] n = 2 -> [kind |-> "network_error"]
      [] n = 3 -> [kind |-> "directory"]
      [] n = 4 -> [kind |-> "file", bytes |-> NotUtf8]
      [] n = 5 -> [kind |-> "file",
                   bytes |-> Bytes(ManifestTexts(file_name)[1])]
      [] n = 6 -> [kind |-> "file",
                   bytes |-> Bytes(ManifestTexts(file_name)[2])]

Catalog == {dependency_files[i] : i \in 1..Len(dependency_files)}

\* The repositories tried: no catalog name, one, or a pair of them, is
\* other than simply missing.
ManifestMaps ==
    UNION {{[f \in Catalog |-> IF f \in P THEN ManifestEntry(f, m[f])
                               ELSE [kind |-> "missing"]] :
               m \in [P -> 1..6]} :
              P \in {{}} \cup {{f, g} : f, g \in Catalog}}

DepsRemotes ==
    {[repo_found |-> TRUE, manifests |-> m] : m \in ManifestMaps}
    \cup {[repo_found |-> FALSE,
           manifests |-> [f \in Catalog |-> [kind |-> "missing"]]]}

DepsUrls == {Url("github.com", <<"/", "o", "/", "r">>),
             Url("gitlab.com", <<"/", "o", "/", "r">>)}

DepsCall(repo_url, rem) ==
    \E r \in {analyze_repo_dependencies(github_client, repo_url, rem)} :
        /\ call' = [op |-> "analyze_repo_dependencies", repo_url |-> repo_url]
        /\ remote' = rem
        /\ ret' = r.ret
        /\ requests' = r.fetched
        /\ UNCHANGED github_client

DependenciesAuthenticated ==
    /\ Idle
    /\ github_client
    /\ \E repo_url \in DepsUrls, rem \in DepsRemotes : DepsCall(repo_url, rem)

DependenciesFallback ==
    /\ Idle
    /\ ~github_client
    /\ \E repo_url \in DepsUrls, rem \in DepsRemotes : DepsCall(repo_url, rem)

NextDeps == DependenciesAuthenticated \/ DependenciesFallback

SpecDeps == InitCommon /\ [][NextDeps]_vars

\* A scan that was started: the URL is a locator and the repository exists.
ScanStarted ==
    /\ call.op = "analyze_repo_dependencies"
    /\ parse_github_url(call.repo_url).ok
    /\ remote.repo_found

\* The catalog files that were fetched and whose bytes are text.
Readable == {f \in Catalog : /\ remote.manifests[f].kind = "file"
                             /\ remote.manifests[f].bytes.utf8}

\* C3: on either access path, whatever fails while one catalog file is
\* fetched or read, the operation returns a report, every catalog file is
\* asked for, and every file that was fetched and read is in the report.
C3_ScanNeverAborts ==
    ScanStarted =>
        /\ ret.ok
        /\ requests = dependency_files
        /\ json_loads(ret.val).ok
        /\ Readable \subseteq DOMAIN json_loads(ret.val).val.members

\* Whether the parser of the file's format rejects the text.
Unparsable(file_name, text) ==
    /\ file_name = "package.json"
    /\ \/ ~json_loads(text).ok
       \/ json_loads(text).val.k # "obj"

\* C7: on either access path, a fetched catalog file whose bytes are not
\* text, or whose text its parser rejects, is in the report under its name
\* as the record {error: "Could not parse <name>"}.
C7_UnparsableRecorded ==
    ScanStarted =>
        \A f \in Catalog :
            LET entry == remote.manifests[f]
            IN  (/\ entry.kind = "file"
                 /\ \/ ~entry.bytes.utf8
                    \/ Unparsable(f, entry.bytes.text))
                => /\ ret.ok
                   /\ f \in DOMAIN json_loads(ret.val).val.members
                   /\ json_loads(ret.val).val.members[f] = could_not_parse(f)

(***************************************************************************)
(* Metadata Fetcher and Document Fetcher.  The service holds one record    *)
(* per repository, with its timestamps as instants; its REST surface       *)
(* writes a timestamp as ISO 8601 text ending in "Z", and the client       *)
(* library hands it over as a datetime, aware of its zone or not           *)
(* according to the library's version.                                     *)
(***************************************************************************)
Stamp(t) == <<"2", "0", "2", "0", "-", "0", "1", "-">> \o Digits(10 + t)
            \o <<"T", "0", "0", ":", "0", "0", ":", "0", "0">>

\* The timestamp as the REST surface writes it.
rest_timestamp(t) == Stamp(t) \o <<"Z">>

\* datetime.isoformat() of the client's datetime.
isoformat(t, tz_aware) ==
    IF tz_aware THEN Stamp(t) \o <<"+", "0", "0", ":", "0", "0">> ELSE Stamp(t)

\* A failed fetch of a top-level resource, as each access path raises it.
fetch_error(client, kind) ==
    IF kind = "network_error" THEN Raise("ConnectionError")
    ELSE IF client THEN Raise("GithubException") ELSE Raise("HTTPError")

get_repository_metadata(client, rem) ==
    IF rem.metadata # "ok" THEN fetch_error(client, rem.metadata)
    ELSE LET repo == rem.repo
         IN  IF client
             THEN Return(json_dumps(JObj(
                    [name |-> JStr(repo.name),
                     full_name |-> JStr(repo.full_name),
                     description |-> repo.description,
                     language |-> repo.language,
                     stars |-> JInt(repo.stargazers_count),
                     forks |-> JInt(repo.forks_count),
                     open_issues |-> JInt(repo.open_issues_count),
                     created_at |->
                         JStr(isoformat(repo.created_at, rem.tz_aware)),
                     updated_at |->
                         JStr(isoformat(repo.updated_at, rem.tz_aware)),
                     size |-> JInt(repo.size),
                     default_branch |-> JStr(repo.default_branch),
                     topics |-> JList(repo.topics),
                     license |-> IF repo.license # JNull
                                 THEN repo.license.members.name ELSE JNull,
                     homepage |-> repo.homepage,
                     clone_url |-> JStr(repo.clone_url),
                     ssh_url |-> JStr(repo.ssh_url)])))
             ELSE Return(json_dumps(JObj(
                    [name |-> JStr(repo.name),
                     full_name |-> JStr(repo.full_name),
                     description |-> repo.description,
                     language |-> repo.language,
                     stars |-> JInt(repo.stargazers_count),
                     forks |-> JInt(repo.forks_count),
                     open_issues |-> JInt(repo.open_issues_count),
                     created_at |-> JStr(rest_timestamp(repo.created_at)),
                     updated_at |-> JStr(rest_timestamp(repo.updated_at)),
                     size |-> JInt(repo.size),
                     default_branch |-> JStr(repo.default_branch),
                     topics |-> JList(repo.topics),
                     license |-> IF repo.license # JNull
                                 THEN repo.license.members.name ELSE JNull,
                     homepage |-> repo.homepage,
                     clone_url |-> JStr(repo.clone_url),
                     ssh_url |-> JStr(repo.ssh_url)])))

get_repository_readme(client, rem) ==
    IF rem.readme.kind # "file" THEN fetch_error(client, rem.readme.kind)
    ELSE IF client THEN decode_utf8(rem.readme.bytes)
    ELSE decode_utf8(b64decode(b64encode(rem.readme.bytes)))

(***************************************************************************)
(* Repository Info Aggregator.  Returns the call's outcome and the         *)
(* fetches it made, in order.                                              *)
(***************************************************************************)
ReadmePreviewLimit == 500
SummaryEntries == 10
DefaultMaxDepth == 3

Min(a, b) == IF a < b THEN a ELSE b

readme_preview_cut_only(readme) ==
    IF Len(readme) > ReadmePreviewLimit
    THEN SubSeq(readme, 1, ReadmePreviewLimit)
    ELSE readme

\* readme[:500] + "..." if len(readme) > 500 else readme (line 374)
readme_preview(readme) ==
    IF Len(readme) > ReadmePreviewLimit
    THEN SubSeq(readme, 1, ReadmePreviewLimit) \o ELLIPSIS
    ELSE readme

\* json.loads(structure)[:10] (line 375)
first_entries(items) == SubSeq(items, 1, Min(SummaryEntries, Len(items)))

structure_summary(structure) ==
    JList(first_entries(json_loads(structure).val.items))

Fetch(what) == [fetch |-> what]
ContentsFetches(listed) ==
    [i \in 1..Len(listed) |-> [fetch |-> "contents", path |-> listed[i]]]

repo_info_keeps_going(repo_url, locator, metadata, readme, structure) ==
    [ret |-> IF ~locator.ok THEN locator
             ELSE IF ~metadata.ok THEN metadata
             ELSE IF ~readme.ok THEN readme
             ELSE structure.ret,
     fetched |-> <<Fetch("metadata"), Fetch("readme")>>
                 \o ContentsFetches(structure.listed)]

\* Lines 366-378 for the outcomes of the four calls they make, in order: the
\* first that failed ends the operation.
repo_info(repo_url, locator, metadata, readme, structure) ==
    IF ~locator.ok THEN [ret |-> locator, fetched |-> <<>>]
    ELSE IF ~metadata.ok
    THEN [ret |-> metadata, fetched |-> <<Fetch("metadata")>>]
    ELSE IF ~readme.ok
    THEN [ret |-> readme, fetched |-> <<Fetch("metadata"), Fetch("readme")>>]
    ELSE IF ~structure.ret.ok
    THEN [ret |-> structure.ret,
          fetched |-> <<Fetch("metadata"), Fetch("readme")>>
                      \o ContentsFetches(structure.listed)]
    ELSE [ret |-> Return(json_dumps(JObj(
             [repository_url |-> JStr(repo_url),
              metadata |-> json_loads(metadata.val).val,
              readme_preview |-> JStr(readme_preview(readme.val)),
              structure_summary |-> structure_summary(structure.ret.val)]))),
          fetched |-> <<Fetch("metadata"), Fetch("readme")>>
                      \o ContentsFetches(structure.listed)]

get_repo_info(client, repo_url, rem) ==
    repo_info(repo_url, parse_github_url(repo_url),
              get_repository_metadata(client, rem),
              get_repository_readme(client, rem),
              get_repository_structure(client, rem, DefaultMaxDepth))

(***************************************************************************)
(* SpecInfo: get_repo_info on every modelled repository.                   *)
(***************************************************************************)
RepoRecord(licensed) ==
    [name |-> <<"r">>, full_name |-> <<"o", "/", "r">>,
     description |-> IF licensed THEN JStr(<<"d">>) ELSE JNull,
     language |-> IF licensed THEN JStr(<<"P", "y">>) ELSE JNull,
     stargazers_count |-> 5, forks_count |-> 1, open_issues_count |-> 0,
     created_at |-> 1, updated_at |-> 2, size |-> 42,
     default_branch |-> <<"m", "a", "i", "n">>,
     topics |-> IF licensed THEN <<JStr(<<"m", "c", "p">>)>> ELSE <<>>,
     license |-> IF licensed THEN JObj([name |-> JStr(<<"M", "I", "T">>)])
                 ELSE JNull,
     homepage |-> JNull,
     clone_url |-> <<"h">>, ssh_url |-> <<"g">>]

FetchOutcomes == {"ok", "service_error", "network_error"}

ReadmeEntries ==
    {[kind |-> k] : k \in {"service_error", "network_error"}}
    \cup {[kind |-> "file", bytes |-> NotUtf8]}
    \cup {[kind |-> "file", bytes |-> Bytes(Text(n))] : n \in RawLengths}

InfoLevels == {<<>>, <<"wide">>, <<"small", "wide", "wide">>}

\* The listing failures tried: none, the root, one subdirectory.
InfoFailures == {[fail |-> {}, failKind |-> "service"],
                 [fail |-> {<<>>}, failKind |-> "service"],
                 [fail |-> {<<>>}, failKind |-> "network"],
                 [fail |-> {<<"d">>}, failKind |-> "service"]}

InfoRemotes ==
    {[levels |-> l, extra |-> x, fail |-> f.fail, failKind |-> f.failKind,
      metadata |-> m, readme |-> r, repo |-> RepoRecord(lic),
      tz_aware |-> lic] :
        l \in InfoLevels, x \in 0..MaxRootExtra, f \in InfoFailures,
        m \in FetchOutcomes, r \in ReadmeEntries, lic \in BOOLEAN}

InfoCall(repo_url, rem) ==
    \E r \in {get_repo_info(github_client, repo_url, rem)} :
        /\ call' = [op |-> "get_repo_info", repo_url |-> repo_url]
        /\ remote' = rem
        /\ ret' = r.ret
        /\ requests' = r.fetched
        /\ UNCHANGED github_client

InfoAuthenticated ==
    /\ Idle
    /\ github_client
    /\ \E repo_url \in DepsUrls, rem \in InfoRemotes : InfoCall(repo_url, rem)

InfoFallback ==
    /\ Idle
    /\ ~github_client
    /\ \E repo_url \in DepsUrls, rem \in InfoRemotes : InfoCall(repo_url, rem)

NextInfo == InfoAuthenticated \/ InfoFallback

SpecInfo == InitCommon /\ [][NextInfo]_vars

InfoReturned == call.op = "get_repo_info" /\ ret.ok

\* The document and the top-level tree the call was served.
ServedReadme == remote.readme.bytes.text
ServedTopLevel == Listing(remote, <<>>)

\* C8: the document preview is the whole document when it has at most 500
\* characters and its first 500 characters followed by "..." when it has
\* more; the structure summary is the first min(10, n) entries of the
\* n-entry top-level tree, in their order.
C8_Truncation ==
    InfoReturned =>
        LET info == json_loads(ret.val).val.members
            doc == ServedReadme
            top == ServedTopLevel
            summary == info.structure_summary.items
        IN  /\ info.readme_preview =
                 JStr(IF Len(doc) <= 500 THEN doc
                      ELSE [i \in 1..503 |-> IF i <= 500 THEN doc[i] ELSE "."])
            /\ Len(summary) = Min(10, Len(top))
            /\ \A i \in 1..Len(summary) :
                  /\ summary[i].members.name = JStr(top[i].name)
                  /\ summary[i].members.path = JStr(top[i].path)

\* A call that cut both: a document of more than 500 characters and a
\* top-level tree of more than 10 entries.
C8_Witness ==
    /\ InfoReturned
    /\ Len(ServedReadme) > 500
    /\ Len(ServedTopLevel) > 10
    /\ Len(json_loads(ret.val).val.members.readme_preview.s) = 503
    /\ Len(json_loads(ret.val).val.members.structure_summary.items) = 10

\* Whether each fetch of the call's repository fails.
MetadataFails == remote.metadata # "ok"
ReadmeFails == remote.readme.kind # "file" \/ ~remote.readme.bytes.utf8
StructureFails == <<>> \in remote.fail

FetchKinds == [i \in 1..Len(requests) |-> requests[i].fetch]

\* C10: get_repo_info fetches the metadata, then the document, then the
\* structure; when one of them fails the operation fails with that error,
\* having attempted no later fetch, and returns no summary.
C10_FirstFailure ==
    (call.op = "get_repo_info" /\ parse_github_url(call.repo_url).ok) =>
        /\ IF MetadataFails
           THEN /\ FetchKinds = <<"metadata">>
                /\ ret = get_repository_metadata(github_client, remote)
           ELSE IF ReadmeFails
           THEN /\ FetchKinds = <<"metadata", "readme">>
                /\ ret = get_repository_readme(github_client, remote)
           ELSE /\ Len(requests) >= 3
                /\ SubSeq(FetchKinds, 1, 2) = <<"metadata", "readme">>
                /\ \A i \in 3..Len(requests) : FetchKinds[i] = "contents"
                /\ requests[3].path = <<>>
                /\ StructureFails =>
                     /\ Len(requests) = 3
                     /\ ret = get_repository_structure(
                                github_client, remote, DefaultMaxDepth).ret
        /\ (MetadataFails \/ ReadmeFails \/ StructureFails) <=> ~ret.ok

\* A call whose metadata fetch succeeded and whose document fetch failed
\* while the structure could have been fetched.
C10_Witness ==
    /\ call.op = "get_repo_info"
    /\ parse_github_url(call.repo_url).ok
    /\ ~MetadataFails /\ ReadmeFails /\ ~StructureFails
    /\ ~ret.ok
    /\ Len(requests) = 2

(***************************************************************************)
(* handle_call_tool.  `arguments` is a dict of the values the caller sent. *)
(***************************************************************************)
\* The text of a result and the text f"Error: {str(e)}" of a failure.
ResultText(result) == [kind |-> "result", text |-> result]
ErrorText(exc) == [kind |-> "error", text |-> <<"Error: ", exc>>]

TextContent(text) == [type |-> "text", text |-> text]

\* arguments["repo_url"], as the locator parser's urlparse accepts it.
repo_url_argument(arguments) ==
    IF "repo_url" \notin DOMAIN arguments THEN Raise("KeyError")
    ELSE IF arguments.repo_url.k # "str" THEN Raise("AttributeError")
    ELSE Return(arguments.repo_url.s)

\* arguments.get("max_depth", 3)
max_depth_argument(arguments) ==
    IF "max_depth" \in DOMAIN arguments THEN arguments.max_depth
    ELSE JInt(DefaultMaxDepth)

\* The walk compares current_depth >= max_depth before anything else: a
\* max_depth that is no int fails there, after the root listing was fetched.
compared(max_depth, r) ==
    IF max_depth.k = "int" THEN r
    ELSE IF r.ret.ok THEN [ret |-> Raise("TypeError"), listed |-> r.listed]
    ELSE r

get_repo_structure_tool(client, repo_url, max_depth, rem) ==
    IF ~parse_github_url(repo_url).ok
    THEN [ret |-> parse_github_url(repo_url), listed |-> <<>>]
    ELSE compared(max_depth,
                  get_repository_structure(
                      client, rem,
                      IF max_depth.k = "int" THEN max_depth.n ELSE 0))

get_repo_readme_tool(client, repo_url, rem) ==
    IF ~parse_github_url(repo_url).ok THEN parse_github_url(repo_url)
    ELSE get_repository_readme(client, rem)

\* The fetches behind the outcome of each tool.
contents_fetches(r) == [ret |-> r.ret, fetched |-> ContentsFetches(r.listed)]

readme_fetches(repo_url, r) ==
    [ret |-> r,
     fetched |-> IF parse_github_url(repo_url).ok THEN <<Fetch("readme")>>
                 ELSE <<>>]

manifest_fetches(r) ==
    [ret |-> r.ret,
     fetched |-> [i \in 1..Len(r.fetched) |->
                    [fetch |-> "manifest", file |-> r.fetched[i]]]]

\* The if/elif chain of handle_call_tool (lines 172-184), with the
\* repo_url it was given.
dispatch(client, name, repo_url, arguments, rem) ==
    IF ~repo_url.ok THEN [ret |-> repo_url, fetched |-> <<>>]
    ELSE IF name = "get_repo_info"
    THEN get_repo_info(client, repo_url.val, rem)
    ELSE IF name = "get_repo_structure"
    THEN contents_fetches(
             get_repo_structure_tool(client, repo_url.val,
                                     max_depth_argument(arguments), rem))
    ELSE IF name = "get_repo_readme"
    THEN readme_fetches(repo_url.val,
                        get_repo_readme_tool(client, repo_url.val, rem))
    ELSE manifest_fetches(
             analyze_repo_dependencies(client, repo_url.val, rem))

\* The outcome of the tool's operation, and the fetches it made.
tool_result(client, name, arguments, rem) ==
    IF name \notin {"get_repo_info", "get_repo_structure",
                    "get_repo_readme", "analyze_repo_dependencies"}
    THEN [ret |-> Raise("ValueError"), fetched |-> <<>>]
    ELSE dispatch(client, name, repo_url_argument(arguments), arguments, rem)

handles_locator_errors_only(exc) == exc = "ValueError"

\* except Exception (line 186)
handles(exc) == exc \in ExceptionClasses

\* return [TextContent(type="text", text=result)], or the except clause's
\* [TextContent(type="text", text=f"Error: {str(e)}")]
text_content(r) ==
    IF r.ok THEN Return(<<TextContent(ResultText(r.val))>>)
    ELSE IF handles(r.exc) THEN Return(<<TextContent(ErrorText(r.exc))>>)
    ELSE r

answered(r) == [ret |-> text_content(r.ret), fetched |-> r.fetched]

handle_call_tool(client, name, arguments, rem) ==
    answered(tool_result(client, name, arguments, rem))

(***************************************************************************)
(* Spec: the server's tool calls, one action per tool.                     *)
(***************************************************************************)
GoodUrl == Url("github.com", <<"/", "o", "/", "r", "/">>)

UrlArguments ==
    {<<>>, [repo_url |-> JInt(5)]}
    \cup {[repo_url |-> JStr(u)] :
            u \in {GoodUrl, Url("gitlab.com", <<"/", "o", "/", "r">>),
                   Url("github.com", <<"/", "o">>),
                   Url("github.com", <<"/", "o", "/", "/", "r">>)}}

\* Largest max_depth a tool call sends (the smallest is -1).
MaxToolDepth == 2

MaxDepthArguments ==
    {<<>>, [max_depth |-> JNull], [max_depth |-> JStr(<<"3">>)]}
    \cup {[max_depth |-> JInt(n)] : n \in (-1)..MaxToolDepth}

DefaultRemote ==
    [levels |-> <<"wide", "small">>, extra |-> 0, fail |-> {},
     failKind |-> "service", metadata |-> "ok",
     readme |-> [kind |-> "file", bytes |-> Bytes(Text(3))],
     repo |-> RepoRecord(TRUE), tz_aware |-> TRUE, repo_found |-> TRUE,
     manifests |-> [f \in Catalog |-> [kind |-> "missing"]]]

ToolLevels == {<<>>, <<"wide", "small">>}

ToolReadmes == {[kind |-> "service_error"],
                [kind |-> "file", bytes |-> NotUtf8],
                [kind |-> "file", bytes |-> Bytes(Text(3))]}

ToolManifests ==
    {DefaultRemote.manifests,
     [DefaultRemote.manifests EXCEPT
        !["requirements.txt"] =
            [kind |-> "file", bytes |-> Bytes(<<"a", "\n", "#", "c">>)],
        !["go.mod"] = [kind |-> "network_error"]],
     [DefaultRemote.manifests EXCEPT
        !["package.json"] = [kind |-> "file", bytes |-> NotUtf8]],
     [DefaultRemote.manifests EXCEPT
        !["Gemfile"] = [kind |-> "directory"]]}

ToolCall(name, arguments, rem) ==
    \E r \in {handle_call_tool(github_client, name, arguments, rem)} :
        /\ call' = [op |-> "handle_call_tool", name |-> name,
                    arguments |-> arguments]
        /\ remote' = rem
        /\ ret' = r.ret
        /\ requests' = r.fetched
        /\ UNCHANGED github_client

CallGetRepoInfo ==
    /\ Idle
    /\ \E arguments \in UrlArguments, l \in ToolLevels, f \in InfoFailures,
          m \in FetchOutcomes, r \in ToolReadmes :
          ToolCall("get_repo_info", arguments,
                   [DefaultRemote EXCEPT !.levels = l, !.fail = f.fail,
                                         !.failKind = f.failKind,
                                         !.metadata = m, !.readme = r])

CallGetRepoStructure ==
    /\ Idle
    /\ \E arguments \in UrlArguments, d \in MaxDepthArguments,
          l \in ToolLevels, f \in InfoFailures :
          ToolCall("get_repo_structure", d @@ arguments,
                   [DefaultRemote EXCEPT !.levels = l, !.fail = f.fail,
                                         !.failKind = f.failKind])

CallGetRepoReadme ==
    /\ Idle
    /\ \E arguments \in UrlArguments, r \in ToolReadmes :
          ToolCall("get_repo_readme", arguments,
                   [DefaultRemote EXCEPT !.readme = r])

CallAnalyzeRepoDependencies ==
    /\ Idle
    /\ \E arguments \in UrlArguments, m \in ToolManifests, found \in BOOLEAN :
          ToolCall("analyze_repo_dependencies", arguments,
                   [DefaultRemote EXCEPT !.manifests = m,
                                         !.repo_found = found])

CallUnknownTool ==
    /\ Idle
    /\ \E name \in {"get_repo", ""}, arguments \in UrlArguments :
          ToolCall(name, arguments, DefaultRemote)

Next ==
    \/ CallGetRepoInfo
    \/ CallGetRepoStructure
    \/ CallGetRepoReadme
    \/ CallAnalyzeRepoDependencies
    \/ CallUnknownTool

Spec == InitCommon /\ [][Next]_vars

ToolCalled == call.op = "handle_call_tool"

\* C9: every tool call, whatever the tool name, the arguments and the
\* failures of the locator parser and of the remote fetches, returns one
\* text content holding either the operation's result or an error string;
\* no exception leaves the handler.
C9_NoExceptionEscapes ==
    ToolCalled =>
        /\ ret.ok
        /\ Len(ret.val) = 1
        /\ ret.val[1].type = "text"
        /\ LET r == tool_result(github_client, call.name, call.arguments,
                                remote).ret
           IN  IF r.ok THEN ret.val[1].text = ResultText(r.val)
               ELSE ret.val[1].text = ErrorText(r.exc)

\* A call whose remote fetch failed with an error that is not a service
\* error of the client library, answered by an error string.
C9_Witness ==
    /\ ToolCalled
    /\ call.name = "analyze_repo_dependencies"
    /\ github_client
    /\ remote.manifests["go.mod"].kind = "network_error"
    /\ ret.ok
    /\ ret.val[1].text = ErrorText("ConnectionError")

(***************************************************************************)
(* SpecMeta: get_repository_metadata, on either access path, on every      *)
(* modelled repository record.                                             *)
(***************************************************************************)
\* Latest instant of a repository's timestamps (the earliest is 1).
MaxStamp == 3

\* The repository records tried: every choice of the optional fields and of
\* the two timestamps.
MetaRecords ==
    {[RepoRecord(lic) EXCEPT
        !.description = IF described THEN JStr(<<"d">>) ELSE JNull,
        !.topics = IF tagged THEN <<JStr(<<"m", "c", "p">>)>> ELSE <<>>,
        !.created_at = c, !.updated_at = u] :
        lic \in BOOLEAN, described \in BOOLEAN, tagged \in BOOLEAN,
        c \in 1..MaxStamp, u \in 1..MaxStamp}

MetaRemotes ==
    {[metadata |-> m, repo |-> rec, tz_aware |-> tz] :
        m \in FetchOutcomes, rec \in MetaRecords, tz \in BOOLEAN}

MetadataCall(rem) ==
    /\ call' = [op |-> "get_repository_metadata"]
    /\ remote' = rem
    /\ ret' = get_repository_metadata(github_client, rem)
    /\ requests' = <<Fetch("metadata")>>
    /\ UNCHANGED github_client

MetadataAuthenticated ==
    /\ Idle
    /\ github_client
    /\ \E rem \in MetaRemotes : MetadataCall(rem)

MetadataFallback ==
    /\ Idle
    /\ ~github_client
    /\ \E rem \in MetaRemotes : MetadataCall(rem)

NextMeta == MetadataAuthenticated \/ MetadataFallback

SpecMeta == InitCommon /\ [][NextMeta]_vars

MetadataReturned == call.op = "get_repository_metadata" /\ ret.ok

\* The record the other access path returns for the same repository.
OtherPathMetadata ==
    json_loads(get_repository_metadata(~github_client, remote).val).val

\* C11: for the same repository record, get_repository_metadata returns on
\* the authenticated path and on the fallback path records with the same
\* fields and the same value in every field.
C11_PathsAgree ==
    MetadataReturned =>
        LET mine == json_loads(ret.val).val.members
            other == OtherPathMetadata.members
        IN  /\ DOMAIN mine = DOMAIN other
            /\ \A field \in DOMAIN mine : mine[field] = other[field]

\* The fields in which the two access paths differ.
DifferingFields ==
    {field \in DOMAIN json_loads(ret.val).val.members :
        json_loads(ret.val).val.members[field]
            # OtherPathMetadata.members[field]}

\* The two paths return the same fields, and the same value in every field
\* that is not a timestamp.
MetaAgreeButTimestamps ==
    MetadataReturned =>
        /\ DOMAIN json_loads(ret.val).val.members
             = DOMAIN OtherPathMetadata.members
        /\ DifferingFields = {"created_at", "updated_at"}

(***************************************************************************)
(* The shape of the nodes of a returned tree.                              *)
(***************************************************************************)
\* A node at nesting level `level` is walked at current_depth = level - 1.
Expandable(n) ==
    n.node.type = JStr(DIR) /\ n.level - 1 < call.max_depth - 1

\* The listings requested after the root listing.
SubListings == {requests[i] : i \in 2..Len(requests)}

\* C12: in the returned tree a listing is requested for an entry iff it is a
\* directory at current depth strictly less than max_depth - 1; a node has a
\* children sequence iff it is such a directory, and the sequence is empty
\* when its listing failed; size is non-null only on file nodes.
C12_NodeShape ==
    StructureReturned =>
        /\ \A n \in NodesOf(ReturnedTree, 1) :
              /\ n.node.path.s \in SubListings <=> Expandable(n)
              /\ "children" \in DOMAIN n.node <=> Expandable(n)
              /\ (Expandable(n) /\ n.node.path.s \in remote.fail) =>
                    n.node.children = JList(<<>>)
              /\ n.node.size # JNull => n.node.type = JStr(FILE)
        /\ Len(requests) - 1
             = Cardinality({n \in NodesOf(ReturnedTree, 1) : Expandable(n)})

\* A tree with an expanded directory, a directory left unexpanded at depth
\* max_depth - 1 that has entries on the service, a directory whose listing
\* failed, and a file.
C12_Witness ==
    /\ StructureReturned
    /\ \E a, b, c, f \in NodesOf(ReturnedTree, 1) :
          /\ Expandable(a) /\ a.node.children # JList(<<>>)
          /\ b.node.type = JStr(DIR) /\ ~Expandable(b)
          /\ "children" \notin DOMAIN b.node
          /\ Listing(remote, b.node.path.s) # <<>>
          /\ Expandable(c) /\ c.node.path.s \in remote.fail
          /\ c.node.children = JList(<<>>)
          /\ f.node.type = JStr(FILE) /\ f.node.size # JNull

(***************************************************************************)
(* The two access paths side by side: the call of a state, and the same    *)
(* call made on the other access path to the same repository, with the     *)
(* same listings failing.                                                  *)
(***************************************************************************)
OtherPathStructure ==
    get_repository_structure(~github_client, remote, call.max_depth)

MaxWalkDepth == 4

WalkLevels == {<<>>, <<"wide">>, <<"small", "wide">>,
               <<"small", "wide", "wide">>, <<"wide", "small", "wide">>}

WalkFailures == InfoFailures
                \cup {[fail |-> {<<"d">>, <<"s", "r", "c">>},
                       failKind |-> "network"]}

WalkRemotes ==
    {[levels |-> l, extra |-> 0, fail |-> f.fail, failKind |-> f.failKind] :
        l \in WalkLevels, f \in WalkFailures}

\* The outcome of requests.get for a listing, as the fallback path reads it:
\* the entries, or a failure.
listing_api(response) ==
    IF ~response.ok THEN response
    ELSE IF response.val.status_code # 200 THEN Raise("HTTPError")
    ELSE Return(response.val.json)

\* The listing of a directory on the access path in use.
listing(client, rem, path) ==
    IF client THEN get_contents(rem, path)
    ELSE listing_api(requests_get_contents(rem, path))

Frame(contents, current_depth) ==
    [contents |-> contents, i |-> 1, current_depth |-> current_depth,
     structure |-> <<>>]

Walking == call.op = "walk"
WalkDone == Walking /\ call.stack = <<>>

\* The innermost activation and the entry its loop is at.
Top == call.stack[Len(call.stack)]
Entry == Top.contents[Top.i]

\* Whether the innermost activation is past its depth test and inside its
\* loop.
InLoop ==
    /\ Walking
    /\ call.stack # <<>>
    /\ ~depth_reached(call.max_depth, Top.current_depth)
    /\ Top.i <= Len(Top.contents)

\* The children test of the access path in use.
Expands ==
    IF github_client THEN expands(Entry, call.max_depth, Top.current_depth)
    ELSE expands_api(Entry, call.max_depth, Top.current_depth)

\* structure.append(item) in the innermost activation, whose loop goes on.
Appended(stack, item) ==
    [stack EXCEPT ![Len(stack)].structure = Append(@, item),
                  ![Len(stack)].i = @ + 1]

\* get_repository_structure fetches the root listing and calls the builder
\* at depth 0, or fails with the listing's error.
WalkBegin(max_depth, rem, contents) ==
    /\ call' = [op |-> "walk", max_depth |-> max_depth, deepest |-> 0,
                stack |-> IF contents.ok THEN <<Frame(contents.val, 0)>>
                          ELSE <<>>]
    /\ remote' = rem
    /\ ret' = IF contents.ok THEN ret ELSE contents
    /\ requests' = <<(<<>>)>>
    /\ UNCHANGED github_client

WalkStart ==
    /\ Idle
    /\ \E max_depth \in (-1)..MaxWalkDepth, rem \in WalkRemotes :
          WalkBegin(max_depth, rem, listing(github_client, rem, <<>>))

\* The loop body for an entry that is not expanded.
WalkEntry ==
    /\ InLoop
    /\ ~Expands
    /\ call' = [call EXCEPT !.stack = Appended(@, node(Entry))]
    /\ UNCHANGED <<github_client, remote, ret, requests>>

\* The loop body for a directory: its listing is requested, and the builder
\* is called on it one level deeper.
WalkDescend ==
    /\ InLoop
    /\ Expands
    /\ listing(github_client, remote, Entry.path).ok
    /\ call' = [call EXCEPT
                  !.stack = Append(@, Frame(listing(github_client, remote,
                                                    Entry.path).val,
                                            Top.current_depth + 1)),
                  !.deepest = IF Top.current_depth + 1 > @
                              THEN Top.current_depth + 1 ELSE @]
    /\ requests' = Append(requests, Entry.path)
    /\ UNCHANGED <<github_client, remote, ret>>

\* The loop body for a directory whose listing fails.
WalkInaccessible ==
    /\ InLoop
    /\ Expands
    /\ ~listing(github_client, remote, Entry.path).ok
    /\ call' = [call EXCEPT
                  !.stack = Appended(@, inaccessible(node(Entry)))]
    /\ requests' = Append(requests, Entry.path)
    /\ UNCHANGED <<github_client, remote, ret>>

\* What the innermost activation returns: nothing at the depth bound, else
\* the structure it built.
Returned ==
    IF depth_reached(call.max_depth, Top.current_depth) THEN <<>>
    ELSE Top.structure

\* The caller's stack once the innermost activation returned to it.
Resumed(stack, item, sub) ==
    Appended(SubSeq(stack, 1, Len(stack) - 1), with_children(item, sub))

\* An activation returns to the activation that called it.
WalkReturn ==
    /\ Walking
    /\ Len(call.stack) >= 2
    /\ ~InLoop
    /\ call' = [call EXCEPT
                  !.stack = Resumed(@, node(@[Len(@) - 1].contents[
                                                @[Len(@) - 1].i]),
                                    Returned)]
    /\ UNCHANGED <<github_client, remote, ret, requests>>

\* The outermost activation returns its structure to
\* get_repository_structure.
WalkFinish ==
    /\ Walking
    /\ Len(call.stack) = 1
    /\ ~InLoop
    /\ call' = [call EXCEPT !.stack = <<>>]
    /\ ret' = Return(JList(Returned))
    /\ UNCHANGED <<github_client, remote, requests>>

WalkStep ==
    WalkEntry \/ WalkDescend \/ WalkInaccessible \/ WalkReturn \/ WalkFinish

NextWalk == WalkStart \/ WalkStep

\* A call that was started is run until it returns.
SpecWalk == InitCommon /\ [][NextWalk]_vars /\ WF_vars(WalkStep)

\* A finished walk returned the structure whose text
\* get_repository_structure returns, or failed as it fails, after the same
\* requests.
WalkRefinesStructure ==
    WalkDone =>
        /\ IF ret.ok
           THEN Return(json_dumps(ret.val))
                  = get_repository_structure(github_client, remote,
                                             call.max_depth).ret
           ELSE ret = get_repository_structure(github_client, remote,
                                               call.max_depth).ret
        /\ requests = get_repository_structure(github_client, remote,
                                               call.max_depth).listed

Max(a, b) == IF a > b THEN a ELSE b

\* Every activation is one level deeper than its caller, the outermost at
\* depth 0, and none is deeper than `bound`.
DepthsWithin(bound) ==
    Walking =>
        \A k \in 1..Len(call.stack) :
            /\ call.stack[k].current_depth = k - 1
            /\ call.stack[k].current_depth <= bound

\* A recursive call is made one level deeper, from a depth strictly less
\* than max_depth - 1.
CallsDeeper ==
    (Walking /\ Len(call.stack') > Len(call.stack)) =>
        /\ Len(call.stack') = Len(call.stack) + 1
        /\ call.stack'[Len(call.stack')].current_depth
             = Top.current_depth + 1
        /\ Top.current_depth < call.max_depth - 1

\* C14 as stated: the depth of the recursion never exceeds max_depth, for
\* every integer max_depth.  (The call at depth 0 that every walk starts
\* with is above a negative max_depth.)
C14_DepthWithinMaxDepth == Walking => DepthsWithin(call.max_depth)

\* C14, amended: every walk terminates, for every integer max_depth and
\* every repository; each recursive call is made one level deeper, from a
\* depth strictly less than max_depth - 1; so the depth of the recursion
\* never exceeds max(max_depth - 1, 0).
C14_WalkTerminates ==
    /\ Walking ~> WalkDone
    /\ [][CallsDeeper]_vars
    /\ [](Walking => DepthsWithin(Max(call.max_depth - 1, 0)))

\* A finished walk that went as deep as max_depth allows in a repository
\* that is deeper.
C14_Witness ==
    /\ WalkDone
    /\ ret.ok
    /\ call.max_depth >= 2
    /\ call.deepest = call.max_depth - 1
    /\ Len(remote.levels) > call.max_depth

====
